---- MODULE Spec2Model ----
(***************************************************************************)
(* A model of the fraud detection front end: the FraudDetector service     *)
(* (feature extraction, normalization, the rule engine, the metrics), the  *)
(* DataAnalyzer aggregations and the App's handlers.                       *)
(*                                                                         *)
(* JavaScript numbers are modelled as exact fractions <<n, d>> in lowest   *)
(* terms with d >= 0; d = 0 encodes the non-finite values: <<0, 0>> is     *)
(* NaN, <<1, 0>> is Infinity, <<-1, 0>> is -Infinity.  Arithmetic is exact *)
(* (no rounding to double precision); Math.sqrt is exact on squares of     *)
(* fractions and rounded down to 1/SqrtScale otherwise.  Where a result    *)
(* depends on rounding (normalizeFeatures on decimal amounts) the doubles  *)
(* themselves are modelled, bit for bit, in a section of their own.        *)
(***************************************************************************)
EXTENDS Integers, Sequences, FiniteSets, TLC

(***************************************************************************)
(* JavaScript numbers                                                      *)
(***************************************************************************)
RECURSIVE GCD(_, _)
GCD(a, b) == IF b = 0 THEN a ELSE GCD(b, a % b)

AbsInt(a) == IF a < 0 THEN -a ELSE a

SignInt(a) == IF a < 0 THEN -1 ELSE IF a = 0 THEN 0 ELSE 1

\* the fraction n/d in lowest terms; a zero denominator gives NaN or +-Infinity
Frac(n, d) ==
  IF d = 0 THEN <<SignInt(n), 0>>
  ELSE LET g == GCD(AbsInt(n), AbsInt(d))
           s == IF d < 0 THEN -1 ELSE 1
       IN  <<(s * n) \div g, (s * d) \div g>>

Num(i) == <<i, 1>>

NaN == <<0, 0>>

Zero == <<0, 1>>

One == <<1, 1>>

IsNaN(x) == x = NaN

IsFinite(x) == x[2] # 0

\* a + b
NAdd(a, b) ==
  IF IsNaN(a) \/ IsNaN(b) THEN NaN
  ELSE IF ~IsFinite(a) /\ ~IsFinite(b) THEN (IF a = b THEN a ELSE NaN)
  ELSE IF ~IsFinite(a) THEN a
  ELSE IF ~IsFinite(b) THEN b
  ELSE LET g == GCD(a[2], b[2])
       IN  Frac(a[1] * (b[2] \div g) + b[1] * (a[2] \div g), (a[2] \div g) * b[2])

NNeg(a) == <<-a[1], a[2]>>

\* a - b
NSub(a, b) == NAdd(a, NNeg(b))

\* a * b
NMul(a, b) ==
  IF IsNaN(a) \/ IsNaN(b) THEN NaN
  ELSE IF ~IsFinite(a) \/ ~IsFinite(b)
       THEN <<SignInt(a[1]) * SignInt(b[1]), 0>>
  ELSE LET g == GCD(AbsInt(a[1]), b[2])
           h == GCD(AbsInt(b[1]), a[2])
       IN  Frac((a[1] \div g) * (b[1] \div h), (a[2] \div h) * (b[2] \div g))

\* a / b
NDiv(a, b) ==
  IF IsNaN(a) \/ IsNaN(b) THEN NaN
  ELSE IF ~IsFinite(a) /\ ~IsFinite(b) THEN NaN
  ELSE IF ~IsFinite(a) THEN <<a[1] * (IF b[1] < 0 THEN -1 ELSE 1), 0>>
  ELSE IF ~IsFinite(b) THEN Zero
  ELSE IF b[1] = 0 THEN <<SignInt(a[1]), 0>>
  ELSE NMul(a, IF b[1] < 0 THEN <<-b[2], -b[1]>> ELSE <<b[2], b[1]>>)

\* the place of a value among -Infinity < every finite number < Infinity
Rank(a) == IF IsFinite(a) THEN 0 ELSE a[1]

\* a > b (false when either side is NaN)
NGt(a, b) ==
  IF IsNaN(a) \/ IsNaN(b) THEN FALSE
  ELSE IF IsFinite(a) /\ IsFinite(b)
       THEN LET g == GCD(a[2], b[2])
            IN  a[1] * (b[2] \div g) > b[1] * (a[2] \div g)
  ELSE Rank(a) > Rank(b)

\* Math.abs
NAbs(a) == <<AbsInt(a[1]), a[2]>>

\* x || 0 on a number: 0 and NaN are falsy
OrZero(x) == IF IsNaN(x) \/ x[1] = 0 THEN Zero ELSE x

\* x || 1 on a number
OrOne(x) == IF IsNaN(x) \/ x[1] = 0 THEN One ELSE x

(***************************************************************************)
(* Math.sqrt: exact on the square of a fraction, otherwise rounded down to *)
(* a multiple of 1/SqrtScale (to an integer for large arguments).          *)
(***************************************************************************)
SqrtScale == 100

RECURSIVE ISqrtIn(_, _, _)
ISqrtIn(n, lo, hi) ==
  IF lo >= hi THEN lo
  ELSE LET mid == (lo + hi + 1) \div 2
       IN  IF mid * mid <= n THEN ISqrtIn(n, mid, hi) ELSE ISqrtIn(n, lo, mid - 1)

\* the integer square root of n >= 0 (46340 is the largest root of a 32-bit integer)
ISqrt(n) == ISqrtIn(n, 0, IF n < 46340 THEN n ELSE 46340)

Sqrt(x) ==
  IF IsNaN(x) \/ x[1] < 0 THEN NaN
  ELSE IF ~IsFinite(x) THEN x
  ELSE LET p == x[1]
           q == x[2]
           rp == ISqrt(p)
           rq == ISqrt(q)
           whole == p \div q
       IN  IF rp * rp = p /\ rq * rq = q THEN <<rp, rq>>
           ELSE IF whole >= (46340 \div SqrtScale) * (46340 \div SqrtScale)
                THEN <<ISqrt(whole), 1>>
           ELSE Frac(ISqrt(whole * SqrtScale * SqrtScale
                           + ((p % q) * SqrtScale * SqrtScale) \div q), SqrtScale)

\* the sum of a sequence of numbers, added left to right from 0
RECURSIVE SumSeq(_)
SumSeq(s) == IF s = <<>> THEN Zero ELSE NAdd(SumSeq(SubSeq(s, 1, Len(s) - 1)), s[Len(s)])

\* Array.prototype.map
MapSeq(s, F(_)) == [i \in 1..Len(s) |-> F(s[i])]

(***************************************************************************)
(* Transactions (types/Transaction): a record of the parsed fields; the    *)
(* optional predicted_* fields are present only once a scoring stage has   *)
(* added them.  Identifiers are ordinary strings (not names of members of  *)
(* Object.prototype).                                                      *)
(***************************************************************************)
Transaction(id, c, t, a, sec, day, f) ==
  [TRANSACTION_ID |-> id, CUSTOMER_ID |-> c, TERMINAL_ID |-> t, TX_AMOUNT |-> Num(a),
   TX_TIME_SECONDS |-> sec, TX_TIME_DAYS |-> day, TX_FRAUD |-> f]

Has(t, field) == field \in DOMAIN t

\* a grouping that keeps only the last row of a customer (assignment instead of push)
CustomerGroupLastOnly(transactions, c) ==
  LET all == SelectSeq(transactions, LAMBDA t : t.CUSTOMER_ID = c)
  IN  IF all = <<>> THEN all ELSE <<all[Len(all)]>>

\* the rows of a batch with a given customer / terminal, in batch order
CustomerGroup(transactions, c) == SelectSeq(transactions, LAMBDA t : t.CUSTOMER_ID = c)

TerminalGroup(transactions, k) == SelectSeq(transactions, LAMBDA t : t.TERMINAL_ID = k)

CustomerIds(transactions) == {transactions[i].CUSTOMER_ID : i \in DOMAIN transactions}

TerminalIds(transactions) == {transactions[i].TERMINAL_ID : i \in DOMAIN transactions}

Amounts(rows) == MapSeq(rows, LAMBDA t : t.TX_AMOUNT)

\* amounts.reduce((a, b) => a + b, 0) / amounts.length
Mean(amounts) == NDiv(SumSeq(amounts), Num(Len(amounts)))

\* the deviation of a sample: the squares divided by the count less one
DeviationSample(amounts, avg) ==
  Sqrt(NDiv(SumSeq(MapSeq(amounts, LAMBDA a : NMul(NSub(a, avg), NSub(a, avg)))),
            Num(Len(amounts) - 1)))

\* Math.sqrt(sum of (amount - avg)^2 / amounts.length)
Deviation(amounts, avg) ==
  Sqrt(NDiv(SumSeq(MapSeq(amounts, LAMBDA a : NMul(NSub(a, avg), NSub(a, avg)))),
            Num(Len(amounts))))

\* a count that takes a row's predicted label where the row carries one
FraudCountPredicted(rows) ==
  Len(SelectSeq(rows, LAMBDA t : IF Has(t, "predicted_fraud") THEN t.predicted_fraud = 1
                                                               ELSE t.TX_FRAUD = 1))

FraudCount(rows) == Len(SelectSeq(rows, LAMBDA t : t.TX_FRAUD = 1))

(***************************************************************************)
(* FraudDetector: the per-batch statistics, as maps keyed by identifier.   *)
(***************************************************************************)
calculateCustomerStats(transactions) ==
  [c \in CustomerIds(transactions) |->
     LET customerTransactions == CustomerGroup(transactions, c)
         amounts == Amounts(customerTransactions)
         avgAmount == Mean(amounts)
     IN  [avgAmount |-> avgAmount,
          transactionCount |-> Len(customerTransactions),
          amountVariation |-> Deviation(amounts, avgAmount)]]

calculateTerminalStats(transactions) ==
  [k \in TerminalIds(transactions) |->
     LET terminalTransactions == TerminalGroup(transactions, k)
         amounts == Amounts(terminalTransactions)
     IN  [avgAmount |-> Mean(amounts),
          transactionCount |-> Len(terminalTransactions),
          fraudRate |-> NDiv(Num(FraudCount(terminalTransactions)),
                             Num(Len(terminalTransactions)))]]

(***************************************************************************)
(* FraudDetector.detectFraudRuleBased: the ordered cascade of three rules. *)
(***************************************************************************)
AmountThreshold == 220

\* the cascade with the terminal rule tried before the amount rule
RuleScenarioTerminalFirst(transaction, customerStats, terminalStats) ==
  IF transaction.TERMINAL_ID \in DOMAIN terminalStats
     /\ NGt(terminalStats[transaction.TERMINAL_ID].fraudRate, Frac(1, 2)) THEN 2
  ELSE IF NGt(transaction.TX_AMOUNT, Num(AmountThreshold)) THEN 1
  ELSE IF transaction.CUSTOMER_ID \in DOMAIN customerStats
          /\ NGt(transaction.TX_AMOUNT,
                 NMul(customerStats[transaction.CUSTOMER_ID].avgAmount, Num(3))) THEN 3
  ELSE 0

\* the cascade with the customer rule firing at exactly 3 times the mean
RuleScenarioAtLeast(transaction, customerStats, terminalStats) ==
  IF NGt(transaction.TX_AMOUNT, Num(AmountThreshold)) THEN 1
  ELSE IF transaction.TERMINAL_ID \in DOMAIN terminalStats
          /\ NGt(terminalStats[transaction.TERMINAL_ID].fraudRate, Frac(1, 2)) THEN 2
  ELSE IF transaction.CUSTOMER_ID \in DOMAIN customerStats
          /\ ~NGt(NMul(customerStats[transaction.CUSTOMER_ID].avgAmount, Num(3)),
                  transaction.TX_AMOUNT) THEN 3
  ELSE 0

\* the scenario the cascade gives one transaction (0: legitimate)
RuleScenario(transaction, customerStats, terminalStats) ==
  IF NGt(transaction.TX_AMOUNT, Num(AmountThreshold)) THEN 1
  ELSE IF transaction.TERMINAL_ID \in DOMAIN terminalStats
          /\ NGt(terminalStats[transaction.TERMINAL_ID].fraudRate, Frac(1, 2)) THEN 2
  ELSE IF transaction.CUSTOMER_ID \in DOMAIN customerStats
          /\ NGt(transaction.TX_AMOUNT,
                 NMul(customerStats[transaction.CUSTOMER_ID].avgAmount, Num(3))) THEN 3
  ELSE 0

\* an output whose probability grades the weakest rule at one half
RuleOutputGraded(transaction, scenario) ==
  LET predictedFraud == IF scenario = 0 THEN 0 ELSE 1
  IN  [predicted_fraud |-> predictedFraud, predicted_scenario |-> scenario,
       predicted_probability |-> IF scenario = 3 THEN Frac(1, 2) ELSE Num(predictedFraud)]
        @@ transaction

\* {...transaction, predicted_fraud, predicted_scenario, predicted_probability}
RuleOutput(transaction, scenario) ==
  LET predictedFraud == IF scenario = 0 THEN 0 ELSE 1
  IN  [predicted_fraud |-> predictedFraud, predicted_scenario |-> scenario,
       predicted_probability |-> Num(predictedFraud)] @@ transaction

detectFraudRuleBased(transactions) ==
  LET customerStats == calculateCustomerStats(transactions)
      terminalStats == calculateTerminalStats(transactions)
  IN  MapSeq(transactions,
             LAMBDA t : RuleOutput(t, RuleScenario(t, customerStats, terminalStats)))

(***************************************************************************)
(* FraudDetector.calculateMetrics.  The loop runs over the positions of    *)
(* `actual`; reading predicted[i] past the end of `predicted` is a         *)
(* TypeError.  A missing predicted_fraud counts as 0 (|| 0).               *)
(***************************************************************************)
PredictedLabel(p) == IF Has(p, "predicted_fraud") /\ p.predicted_fraud # 0
                     THEN p.predicted_fraud ELSE 0

\* the number of positions with the given actual and predicted labels
CountLabels(actual, predicted, a, p) ==
  Cardinality({i \in DOMAIN actual :
                 actual[i].TX_FRAUD = a /\ PredictedLabel(predicted[i]) = p})

Threw(error) == [ok |-> FALSE, error |-> error]

Returned(value) == [ok |-> TRUE, value |-> value]

\* the ratios of MetricsOf with the matrix laid out as [[tn, fn], [fp, tp]]
MetricsOfSwapped(tp, fp, tn, fn) ==
  LET accuracy == NDiv(Num(tp + tn), Num(tp + fp + tn + fn))
      precision == OrZero(NDiv(Num(tp), Num(tp + fp)))
      recall == OrZero(NDiv(Num(tp), Num(tp + fn)))
      f1Score == OrZero(NDiv(NMul(Num(2), NMul(precision, recall)),
                             NAdd(precision, recall)))
  IN  [accuracy |-> accuracy, precision |-> precision, recall |-> recall,
       f1Score |-> f1Score, confusion_matrix |-> <<<<tn, fn>>, <<fp, tp>>>>]

MetricsOf(tp, fp, tn, fn) ==
  LET accuracy == NDiv(Num(tp + tn), Num(tp + fp + tn + fn))
      precision == OrZero(NDiv(Num(tp), Num(tp + fp)))
      recall == OrZero(NDiv(Num(tp), Num(tp + fn)))
      f1Score == OrZero(NDiv(NMul(Num(2), NMul(precision, recall)),
                             NAdd(precision, recall)))
  IN  [accuracy |-> accuracy, precision |-> precision, recall |-> recall,
       f1Score |-> f1Score, confusion_matrix |-> <<<<tn, fp>>, <<fn, tp>>>>]

calculateMetrics(actual, predicted) ==
  IF Len(predicted) < Len(actual) THEN Threw("TypeError")
  ELSE Returned(MetricsOf(CountLabels(actual, predicted, 1, 1),
                          CountLabels(actual, predicted, 0, 1),
                          CountLabels(actual, predicted, 0, 0),
                          CountLabels(actual, predicted, 1, 0)))

\* tn + fp + fn + tp of a metrics record
MatrixSum(metrics) ==
  metrics.confusion_matrix[1][1] + metrics.confusion_matrix[1][2]
  + metrics.confusion_matrix[2][1] + metrics.confusion_matrix[2][2]

(***************************************************************************)
(* FraudDetector.extractFeatures: 14 numbers per transaction.  The phase   *)
(* features are taken at whole quarter turns only, where sine and cosine   *)
(* are 0, 1 or -1 (the model's inputs are chosen so).                      *)
(***************************************************************************)
SecondsPerDay == 86400

DaysPerWeek == 7

\* sin(2 * PI * n / d) and cos(2 * PI * n / d) for n/d a multiple of a quarter turn
SinTurn(n, d) ==
  CASE 4 * n = 0 -> Zero [] 4 * n = d -> One [] 4 * n = 2 * d -> Zero [] 4 * n = 3 * d -> Num(-1)

CosTurn(n, d) ==
  CASE 4 * n = 0 -> One [] 4 * n = d -> Zero [] 4 * n = 2 * d -> Num(-1) [] 4 * n = 3 * d -> Zero

\* map.get(key)?.field || 0
StatOrZero(stats, key, field) == IF key \in DOMAIN stats THEN OrZero(stats[key][field]) ELSE Zero

\* a row that leaves out the statistics of a customer seen once
FeatureRowKnownOnly(transaction, customerStats, terminalStats) ==
  LET c == transaction.CUSTOMER_ID
  IN  IF c \in DOMAIN customerStats /\ customerStats[c].transactionCount > 1
        THEN <<transaction.TX_AMOUNT, Num(transaction.TX_TIME_SECONDS),
               Num(transaction.TX_TIME_DAYS), customerStats[c].avgAmount,
               Num(customerStats[c].transactionCount), customerStats[c].amountVariation,
               Zero, Zero, Zero, Zero, Zero, One, Zero, One>>
        ELSE <<transaction.TX_AMOUNT, Num(transaction.TX_TIME_SECONDS),
               Num(transaction.TX_TIME_DAYS), Zero, One, Zero, One>>

FeatureRow(transaction, customerStats, terminalStats) ==
  LET c == transaction.CUSTOMER_ID
      k == transaction.TERMINAL_ID
  IN  <<transaction.TX_AMOUNT,
        Num(transaction.TX_TIME_SECONDS),
        Num(transaction.TX_TIME_DAYS),
        StatOrZero(customerStats, c, "avgAmount"),
        IF c \in DOMAIN customerStats
          THEN OrZero(Num(customerStats[c].transactionCount)) ELSE Zero,
        StatOrZero(customerStats, c, "amountVariation"),
        StatOrZero(terminalStats, k, "avgAmount"),
        IF k \in DOMAIN terminalStats
          THEN OrZero(Num(terminalStats[k].transactionCount)) ELSE Zero,
        StatOrZero(terminalStats, k, "fraudRate"),
        NAbs(NSub(transaction.TX_AMOUNT, StatOrZero(customerStats, c, "avgAmount"))),
        SinTurn(transaction.TX_TIME_SECONDS % SecondsPerDay, SecondsPerDay),
        CosTurn(transaction.TX_TIME_SECONDS % SecondsPerDay, SecondsPerDay),
        SinTurn(transaction.TX_TIME_DAYS % DaysPerWeek, DaysPerWeek),
        CosTurn(transaction.TX_TIME_DAYS % DaysPerWeek, DaysPerWeek)>>

extractFeatures(transactions) ==
  LET customerStats == calculateCustomerStats(transactions)
      terminalStats == calculateTerminalStats(transactions)
  IN  MapSeq(transactions, LAMBDA t : FeatureRow(t, customerStats, terminalStats))

(***************************************************************************)
(* The scaler: null, or a pair of mean and std sequences.                  *)
(***************************************************************************)
NullScaler == [set |-> FALSE, mean |-> <<>>, std |-> <<>>]

Column(features, i) == MapSeq(features, LAMBDA row : row[i])

\* Math.sqrt(variance) || 1
ColumnStd(column, mean) == OrOne(Deviation(column, mean))

\* the scaler normalizeFeatures computes from a non-empty feature matrix
FitScaler(features) ==
  LET means == [i \in 1..Len(features[1]) |-> Mean(Column(features, i))]
  IN  [set |-> TRUE, mean |-> means,
       std |-> [i \in 1..Len(features[1]) |-> ColumnStd(Column(features, i), means[i])]]

\* features.map(row => row.map((value, i) => (value - mean[i]) / std[i]))
Transform(features, sc) ==
  MapSeq(features, LAMBDA row : [i \in 1..Len(row) |-> NDiv(NSub(row[i], sc.mean[i]), sc.std[i])])

\* normalizeFeatures without the early return on an empty matrix
normalizeFeaturesNoGuard(features, sc) ==
  IF Len(features) = 0
  THEN [scaler |-> [set |-> TRUE, mean |-> <<>>, std |-> <<>>], out |-> features]
  ELSE LET fit == FitScaler(features)
       IN  [scaler |-> fit, out |-> Transform(features, fit)]

\* normalizeFeatures: the scaler it leaves in this.scaler, and what it returns
normalizeFeatures(features, sc) ==
  IF Len(features) = 0 THEN [scaler |-> sc, out |-> features]
  ELSE LET fit == FitScaler(features)
       IN  [scaler |-> fit, out |-> Transform(features, fit)]

\* applyNormalization under the scaler sc held in this.scaler
applyNormalization(features, sc) ==
  IF ~sc.set THEN features ELSE Transform(features, sc)

(***************************************************************************)
(* JavaScript numbers bit for bit: IEEE-754 binary64, for the arithmetic   *)
(* of normalizeFeatures, whose results depend on rounding.  A finite       *)
(* double is [s, m, e] with value s * m * 2^e, where m is a natural of     *)
(* exactly 53 bits (or 0).  Naturals of that size and of their products    *)
(* are sequences of 15-bit limbs, least significant first, without high    *)
(* zero limbs.  Every operation computes the exact result and rounds it    *)
(* to nearest, ties to even.  Exponents are not bounded: the values drawn  *)
(* stay far from overflow and underflow.                                   *)
(***************************************************************************)
MantissaBits == 53
LimbBits == 15
Limb == 32768

RECURSIVE Pow2(_)
Pow2(k) == IF k = 0 THEN 1 ELSE 2 * Pow2(k - 1)

RECURSIVE LTrim(_)
LTrim(a) == IF a = <<>> \/ a[Len(a)] # 0 THEN a ELSE LTrim(SubSeq(a, 1, Len(a) - 1))

LFromNat(n) == LTrim(<<n % Limb, (n \div Limb) % Limb, n \div (Limb * Limb)>>)

LAt(a, i) == IF i <= Len(a) THEN a[i] ELSE 0

RECURSIVE LAddFrom(_, _, _, _)
LAddFrom(a, b, i, carry) ==
  IF i > Len(a) /\ i > Len(b) THEN (IF carry = 0 THEN <<>> ELSE <<carry>>)
  ELSE LET t == LAt(a, i) + LAt(b, i) + carry
       IN  <<t % Limb>> \o LAddFrom(a, b, i + 1, t \div Limb)

LAdd(a, b) == LAddFrom(a, b, 1, 0)

RECURSIVE LSubFrom(_, _, _, _)
LSubFrom(a, b, i, borrow) ==
  IF i > Len(a) THEN <<>>
  ELSE LET t == LAt(a, i) - LAt(b, i) - borrow
       IN  <<t % Limb>> \o LSubFrom(a, b, i + 1, IF t < 0 THEN 1 ELSE 0)

\* a - b for a >= b
LSub(a, b) == LTrim(LSubFrom(a, b, 1, 0))

LLeq(a, b) ==
  IF Len(a) # Len(b) THEN Len(a) < Len(b)
  ELSE \A i \in 1..Len(a) : a[i] > b[i] => \E j \in (i + 1)..Len(a) : a[j] < b[j]

\* a * c for one limb c
RECURSIVE LMulLimbFrom(_, _, _, _)
LMulLimbFrom(a, c, i, carry) ==
  IF i > Len(a) THEN (IF carry = 0 THEN <<>> ELSE <<carry>>)
  ELSE LET t == a[i] * c + carry
       IN  <<t % Limb>> \o LMulLimbFrom(a, c, i + 1, t \div Limb)

RECURSIVE LMul(_, _)
LMul(a, b) ==
  IF a = <<>> \/ b = <<>> THEN <<>>
  ELSE LTrim(LAdd(LMulLimbFrom(a, b[1], 1, 0), <<0>> \o LMul(a, Tail(b))))

\* a * 2^k
LShl(a, k) ==
  IF a = <<>> THEN <<>>
  ELSE [i \in 1..(k \div LimbBits) |-> 0] \o LMulLimbFrom(a, Pow2(k % LimbBits), 1, 0)

\* floor(a / 2^k)
LShr(a, k) ==
  LET n == k \div LimbBits
      p == Pow2(k % LimbBits)
  IN  LTrim([i \in 1..(Len(a) - n) |->
               (a[i + n] \div p) + (LAt(a, i + n + 1) % p) * (Limb \div p)])

\* number of bits of a
LBits(a) ==
  IF a = <<>> THEN 0
  ELSE (Len(a) - 1) * LimbBits
         + (CHOOSE k \in 1..LimbBits : Pow2(k - 1) <= a[Len(a)] /\ a[Len(a)] < Pow2(k))

\* floor(a / b) with one more low bit that is 1 when something is left: the
\* bits of the quotient are settled from bit k down, q0 being the part above
RECURSIVE LDivFrom(_, _, _, _)
LDivFrom(a, b, q0, k) ==
  IF k = 0 THEN LAdd(LShl(q0, 1), IF LMul(q0, b) = a THEN <<>> ELSE <<1>>)
  ELSE IF LLeq(LMul(LAdd(q0, LShl(<<1>>, k - 1)), b), a)
         THEN LDivFrom(a, b, LAdd(q0, LShl(<<1>>, k - 1)), k - 1)
         ELSE LDivFrom(a, b, q0, k - 1)

LDiv(a, b) == LDivFrom(a, b, <<>>, LBits(a) - LBits(b) + 1)

\* floor(sqrt(a)) with the same low bit, settled the same way
RECURSIVE LSqrtFrom(_, _, _)
LSqrtFrom(a, q0, k) ==
  IF k = 0 THEN LAdd(LShl(q0, 1), IF LMul(q0, q0) = a THEN <<>> ELSE <<1>>)
  ELSE IF LLeq(LMul(LAdd(q0, LShl(<<1>>, k - 1)), LAdd(q0, LShl(<<1>>, k - 1))), a)
         THEN LSqrtFrom(a, LAdd(q0, LShl(<<1>>, k - 1)), k - 1)
         ELSE LSqrtFrom(a, q0, k - 1)

LSqrt(a) == LSqrtFrom(a, <<>>, (LBits(a) + 1) \div 2)

DZero == [s |-> 1, m |-> <<>>, e |-> 0]

\* q rounded up when the bits below it are more than half, or half and q odd
DRoundUp(q, half, rest) ==
  IF half /\ (rest \/ q[1] % 2 = 1) THEN LAdd(q, <<1>>) ELSE q

\* the double s * q * 2^e, q of 53 or (after a carry) 54 bits
DPack(s, q, e) ==
  IF LBits(q) > MantissaBits THEN [s |-> s, m |-> LShr(q, 1), e |-> e + 1]
                             ELSE [s |-> s, m |-> q, e |-> e]

\* round to nearest, ties to even: the double nearest to s * M * 2^e, the
\* k = LBits(M) - 53 low bits of M being dropped
DRoundAt(s, M, e, k) ==
  IF M = <<>> THEN DZero
  ELSE IF k <= 0 THEN [s |-> s, m |-> LShl(M, -k), e |-> e + k]
  ELSE DPack(s, DRoundUp(LShr(M, k), LShr(M, k - 1)[1] % 2 = 1,
                         LShl(LShr(M, k - 1), k - 1) # M), e + k)

DRound(s, M, e) == DRoundAt(s, M, e, LBits(M) - MantissaBits)

DFromNat(n) == DRound(1, LFromNat(n), 0)

DOne == DFromNat(1)

\* a + b with the mantissas A and B brought to the common exponent e0
DAddAt(a, b, A, B, e0) ==
  IF a.s = b.s THEN DRound(a.s, LAdd(A, B), e0)
  ELSE IF A = B THEN DZero
  ELSE IF LLeq(B, A) THEN DRound(a.s, LSub(A, B), e0)
  ELSE DRound(b.s, LSub(B, A), e0)

DAdd(a, b) ==
  IF a.m = <<>> THEN b
  ELSE IF b.m = <<>> THEN a
  ELSE IF a.e < b.e THEN DAddAt(a, b, a.m, LShl(b.m, b.e - a.e), a.e)
  ELSE DAddAt(a, b, LShl(a.m, a.e - b.e), b.m, b.e)

DSub(a, b) == DAdd(a, [b EXCEPT !.s = -b.s])

DMul(a, b) ==
  IF a.m = <<>> \/ b.m = <<>> THEN DZero
  ELSE DRound(a.s * b.s, LMul(a.m, b.m), a.e + b.e)

\* a / b for b # 0
DDiv(a, b) ==
  IF a.m = <<>> THEN DZero
  ELSE DRound(a.s * b.s, LDiv(LShl(a.m, MantissaBits + 3), b.m),
              a.e - b.e - (MantissaBits + 4))

\* Math.sqrt of a >= 0, its mantissa first shifted by k to an even exponent
DSqrtAt(a, k) ==
  IF a.m = <<>> THEN DZero
  ELSE DRound(1, LSqrt(LShl(a.m, k)), ((a.e - k) \div 2) - 1)

DSqrt(a) == DSqrtAt(a, MantissaBits + 3 + ((a.e - (MantissaBits + 3)) % 2))

RECURSIVE DSum(_, _)
DSum(s, i) == IF i = 0 THEN DZero ELSE DAdd(DSum(s, i - 1), s[i])

\* parseFloat of a decimal cell n/d: the double nearest to it
DDecimal(n, d) == DDiv(DFromNat(n), DFromNat(d))

\* column i of the matrix
DColumn(features, i) == [r \in 1..Len(features) |-> features[r][i]]

\* line 104: the mean of a column
DMean(col) == DDiv(DSum(col, Len(col)), DFromNat(Len(col)))

\* Math.pow(x, 2), taken as the correctly rounded x * x
DSquare(x) == DMul(x, x)

RECURSIVE DSumSquares(_, _, _)
DSumSquares(col, mean, i) ==
  IF i = 0 THEN DZero
  ELSE DAdd(DSumSquares(col, mean, i - 1), DSquare(DSub(col[i], mean)))

\* x || 1
DOrOne(x) == IF x.m = <<>> THEN DOne ELSE x

\* lines 109-110: the std of a column
DStd(col, mean) ==
  DOrOne(DSqrt(DDiv(DSumSquares(col, mean, Len(col)), DFromNat(Len(col)))))

\* means[1..i]
RECURSIVE DMeans(_, _)
DMeans(features, i) ==
  IF i = 0 THEN <<>> ELSE Append(DMeans(features, i - 1), DMean(DColumn(features, i)))

\* stds[1..i]
RECURSIVE DStds(_, _, _)
DStds(features, means, i) ==
  IF i = 0 THEN <<>>
  ELSE Append(DStds(features, means, i - 1), DStd(DColumn(features, i), means[i]))

\* lines 113-118: the scaler assigned and the matrix returned
DNormalized(features, means, stds) ==
  [scaler |-> [set |-> TRUE, mean |-> means, std |-> stds],
   out |-> [r \in 1..Len(features) |->
              [i \in 1..Len(features[r]) |->
                 DDiv(DSub(features[r][i], means[i]), stds[i])]]]

DFitted(features, means) ==
  DNormalized(features, means, DStds(features, means, Len(means)))

\* normalizeFeatures in binary64: the scaler it leaves and what it returns
normalizeFeaturesDouble(features, sc) ==
  IF Len(features) = 0 THEN [scaler |-> sc, out |-> features]
  ELSE DFitted(features, DMeans(features, Len(features[1])))

(***************************************************************************)
(* FraudDetector.predict: the guard, the normalization under the scaler    *)
(* held, and the labelling of the classifier's probabilities.              *)
(***************************************************************************)
\* predict normalizing by fitting a scaler on its own batch
predictRefit(features, sc) == normalizeFeatures(features, sc)

\* the scaler predict leaves in this.scaler, and the matrix it hands the model
predictNormalize(features, sc) == [scaler |-> sc, out |-> applyNormalization(features, sc)]

\* !this.model || !this.scaler
NotTrainedYet(m, sc) == m.id = 0 \/ ~sc.set

\* a labelling that writes the predicted label into TX_FRAUD as well
PredictionsOverLabel(transactions, probabilities) ==
  [i \in 1..Len(transactions) |->
     [TX_FRAUD |-> IF NGt(probabilities[i], Frac(1, 2)) THEN 1 ELSE 0,
      predicted_fraud |-> IF NGt(probabilities[i], Frac(1, 2)) THEN 1 ELSE 0,
      predicted_probability |-> probabilities[i]] @@ transactions[i]]

\* a labelling that flags a row at a probability of exactly one half as well
PredictionsAtLeastHalf(transactions, probabilities) ==
  [i \in 1..Len(transactions) |->
     [predicted_fraud |-> IF NGt(Frac(1, 2), probabilities[i]) THEN 0 ELSE 1,
      predicted_probability |-> probabilities[i]] @@ transactions[i]]

\* {...transaction, predicted_fraud, predicted_probability} for each row
PredictionsOf(transactions, probabilities) ==
  [i \in 1..Len(transactions) |->
     [predicted_fraud |-> IF NGt(probabilities[i], Frac(1, 2)) THEN 1 ELSE 0,
      predicted_probability |-> probabilities[i]] @@ transactions[i]]

(***************************************************************************)
(* DataAnalyzer: the same aggregations, returned as arrays sorted by       *)
(* descending fraud rate (Array.prototype.sort is stable).                 *)
(***************************************************************************)
\* the keys of the grouping object, in insertion order
RECURSIVE KeysInOrder(_)
KeysInOrder(ids) ==
  IF ids = <<>> THEN <<>>
  ELSE LET before == KeysInOrder(SubSeq(ids, 1, Len(ids) - 1))
           id == ids[Len(ids)]
       IN  IF \E i \in DOMAIN before : before[i] = id THEN before ELSE Append(before, id)

\* x put into a sequence sorted by descending fraudRate, after its equals
InsertByRate(sorted, x) ==
  LET n == Cardinality({i \in DOMAIN sorted : ~NGt(x.fraudRate, sorted[i].fraudRate)})
  IN  SubSeq(sorted, 1, n) \o <<x>> \o SubSeq(sorted, n + 1, Len(sorted))

RECURSIVE SortByRate(_)
SortByRate(entries) ==
  IF entries = <<>> THEN <<>>
  ELSE InsertByRate(SortByRate(SubSeq(entries, 1, Len(entries) - 1)), entries[Len(entries)])

\* transactions.filter(t => t.TX_FRAUD === 1 && t.TX_FRAUD_SCENARIO === k).length
ScenarioCount(transactions, k) ==
  Len(SelectSeq(transactions,
        LAMBDA t : t.TX_FRAUD = 1 /\ Has(t, "TX_FRAUD_SCENARIO") /\ t.TX_FRAUD_SCENARIO = k))

analyzeFraudStats(transactions) ==
  LET totalTransactions == Len(transactions)
      fraudulentTransactions == FraudCount(transactions)
      fraudAmounts == Amounts(SelectSeq(transactions, LAMBDA t : t.TX_FRAUD = 1))
  IN  [totalTransactions |-> totalTransactions,
       fraudulentTransactions |-> fraudulentTransactions,
       fraudRate |-> NDiv(Num(fraudulentTransactions), Num(totalTransactions)),
       averageAmount |-> Mean(Amounts(transactions)),
       averageFraudAmount |-> IF Len(fraudAmounts) > 0 THEN Mean(fraudAmounts) ELSE Zero,
       scenarioBreakdown |-> [scenario1 |-> ScenarioCount(transactions, 1),
                              scenario2 |-> ScenarioCount(transactions, 2),
                              scenario3 |-> ScenarioCount(transactions, 3)]]

analyzeCustomerStats(transactions) ==
  SortByRate(MapSeq(KeysInOrder(MapSeq(transactions, LAMBDA t : t.CUSTOMER_ID)),
    LAMBDA c :
      LET customerTransactions == CustomerGroup(transactions, c)
          totalTransactions == Len(customerTransactions)
          fraudTransactions == FraudCount(customerTransactions)
          averageAmount == Mean(Amounts(customerTransactions))
          amountVariation == Deviation(Amounts(customerTransactions), averageAmount)
      IN  [customerId |-> c,
           totalTransactions |-> totalTransactions,
           fraudTransactions |-> fraudTransactions,
           fraudRate |-> NDiv(Num(fraudTransactions), Num(totalTransactions)),
           averageAmount |-> averageAmount,
           amountVariation |-> amountVariation,
           spendingPatternAnomaly |-> NGt(amountVariation, NMul(averageAmount, Num(2)))]))

analyzeTerminalStats(transactions) ==
  SortByRate(MapSeq(KeysInOrder(MapSeq(transactions, LAMBDA t : t.TERMINAL_ID)),
    LAMBDA k :
      LET terminalTransactions == TerminalGroup(transactions, k)
          totalTransactions == Len(terminalTransactions)
          fraudTransactions == FraudCount(terminalTransactions)
          fraudRate == NDiv(Num(fraudTransactions), Num(totalTransactions))
      IN  [terminalId |-> k,
           totalTransactions |-> totalTransactions,
           fraudTransactions |-> fraudTransactions,
           fraudRate |-> fraudRate,
           averageAmount |-> Mean(Amounts(terminalTransactions)),
           suspiciousActivity |-> NGt(fraudRate, Frac(3, 10))]))

\* a filter without the test of the amount against 3 times the customer's mean
IsAnomalyNoSpike(transaction, customerStats, terminalStats) ==
  LET customer == SelectSeq(customerStats, LAMBDA cs : cs.customerId = transaction.CUSTOMER_ID)
      terminal == SelectSeq(terminalStats, LAMBDA ts : ts.terminalId = transaction.TERMINAL_ID)
  IN  \/ NGt(transaction.TX_AMOUNT, Num(AmountThreshold))
      \/ terminal # <<>> /\ terminal[Len(terminal)].suspiciousActivity
      \/ customer # <<>> /\ customer[Len(customer)].spendingPatternAnomaly

\* highAmountAnomaly || terminalAnomaly || customerAnomaly || amountSpike, with
\* the entries the two Maps hold for the transaction's customer and terminal
IsAnomaly(transaction, customerStats, terminalStats) ==
  LET customer == SelectSeq(customerStats, LAMBDA cs : cs.customerId = transaction.CUSTOMER_ID)
      terminal == SelectSeq(terminalStats, LAMBDA ts : ts.terminalId = transaction.TERMINAL_ID)
  IN  \/ NGt(transaction.TX_AMOUNT, Num(AmountThreshold))
      \/ terminal # <<>> /\ terminal[Len(terminal)].suspiciousActivity
      \/ customer # <<>> /\ customer[Len(customer)].spendingPatternAnomaly
      \/ customer # <<>> /\ NGt(transaction.TX_AMOUNT,
                                NMul(customer[Len(customer)].averageAmount, Num(3)))

detectAnomalies(transactions) ==
  LET customerStats == analyzeCustomerStats(transactions)
      terminalStats == analyzeTerminalStats(transactions)
  IN  SelectSeq(transactions, LAMBDA t : IsAnomaly(t, customerStats, terminalStats))

(***************************************************************************)
(* State.  The FraudDetector's fields; its trainModel calls in flight; the *)
(* App component's state; and the last call that settled, with what it was *)
(* given and what it returned (an observation, not program state).         *)
(***************************************************************************)
VARIABLES model, scaler, isTraining, calls, trained, app, ret

vars == <<model, scaler, isTraining, calls, trained, app, ret>>

detector == <<model, scaler, isTraining, calls, trained>>

\* bounds of the model
MaxCalls == 2

MaxRuleLen == 4

MaxLen == 3

MaxBatch == 2

MaxLabels == 4

Slots == 1..MaxCalls

NullModel == [id |-> 0, fitted |-> FALSE]

IdleCall == [pc |-> "idle", batch |-> <<>>]

NoRet == [op |-> "none"]

Null == [set |-> FALSE]

Some(value) == [set |-> TRUE, value |-> value]

\* handleModelTrain's position, the transactions it closed over, its metrics
IdleHandler == [pc |-> "idle", batch |-> <<>>, metrics |-> Null]

InitApp == [transactions |-> <<>>, fraudStats |-> Null, terminalStats |-> <<>>,
            customerStats |-> <<>>, modelMetrics |-> Null,
            isModelTrained |-> FALSE, isTraining |-> FALSE, train |-> IdleHandler]

Init ==
  /\ model = NullModel
  /\ scaler = NullScaler
  /\ isTraining = FALSE
  /\ calls = [s \in Slots |-> IdleCall]
  /\ trained = FALSE
  /\ app = InitApp
  /\ ret = NoRet

\* all sequences over S of length at most n
\* a batch from a sequence of <<customer, terminal, amount, label>> rows;
\* TRANSACTION_ID is the row's place, the times are 0
BatchOf(rows) ==
  [i \in 1..Len(rows) |-> Transaction(i, rows[i][1], rows[i][2], rows[i][3], 0, 0, rows[i][4])]

(***************************************************************************)
(* SpecUnit: the FraudDetector's and DataAnalyzer's methods called one by  *)
(* one on a freshly constructed detector, with drawn inputs.               *)
(***************************************************************************)
RuleAmounts == {0, 220, 221}

\* rows of two customers at one terminal, and of one customer at two terminals
RuleRows == { ({"c1", "c2"} \X {"t1"} \X RuleAmounts \X {0, 1}),
              ({"c1"} \X {"t1", "t2"} \X RuleAmounts \X {0, 1}) }

StatRows == {"c1", "c2", "c3"} \X {"t1"} \X {10, 50} \X {0, 1}

NormRows == {"c1", "c2"} \X {"t1"} \X {10, 50} \X {0}

\* labels as parseInt(value) || 0 gives them: any integer
ParsedLabels == {0, 1, 2}

\* predicted_fraud of a row: 0, 1, or 2 for a row that has none
PredictedCases == {0, 1, 2}

ActualOf(labels) == [i \in 1..Len(labels) |-> Transaction(i, "c1", "t1", 10, 0, 0, labels[i])]

PredictedOf(cases) ==
  [i \in 1..Len(cases) |->
     IF cases[i] = 2 THEN Transaction(i, "c1", "t1", 10, 0, 0, 0)
     ELSE [predicted_fraud |-> cases[i], predicted_probability |-> Num(cases[i])]
          @@ Transaction(i, "c1", "t1", 10, 0, 0, 0)]

UnitDetect ==
  /\ ret = NoRet
  /\ \E R \in RuleRows : \E n \in 0..MaxRuleLen : \E rows \in [1..n -> R] :
       ret' = [op |-> "detectFraudRuleBased", in |-> BatchOf(rows),
               out |-> detectFraudRuleBased(BatchOf(rows))]
  /\ UNCHANGED <<detector, app>>

UnitMetrics ==
  /\ ret = NoRet
  /\ \E n \in 0..MaxLen, m \in 0..MaxLen :
       \E labels \in [1..n -> ParsedLabels], cases \in [1..m -> PredictedCases] :
         ret' = [op |-> "calculateMetrics", in |-> ActualOf(labels),
                 predicted |-> PredictedOf(cases),
                 out |-> calculateMetrics(ActualOf(labels), PredictedOf(cases))]
  /\ UNCHANGED <<detector, app>>

\* calculateMetrics on binary labels and predictions of one length
UnitMetricsBinary ==
  /\ ret = NoRet
  /\ \E n \in 0..MaxLabels :
       \E labels \in [1..n -> {0, 1}], cases \in [1..n -> {0, 1}] :
         ret' = [op |-> "calculateMetrics", in |-> ActualOf(labels),
                 predicted |-> PredictedOf(cases),
                 out |-> calculateMetrics(ActualOf(labels), PredictedOf(cases))]
  /\ UNCHANGED <<detector, app>>

UnitCustomerStats ==
  /\ ret = NoRet
  /\ \E n \in 0..MaxLen : \E rows \in [1..n -> StatRows] :
       ret' = [op |-> "customerStats", in |-> BatchOf(rows),
               out |-> calculateCustomerStats(BatchOf(rows)),
               analyzer |-> analyzeCustomerStats(BatchOf(rows))]
  /\ UNCHANGED <<detector, app>>

\* the TX_FRAUD cell of a CSV line: empty where the file has no label
LabelCells == {"", "0", "1"}

\* parseInt(value) || 0 on a cell
ParseIntOrZero(cell) ==
  CASE cell = "1" -> 1
    [] cell = "2" -> 2
    [] OTHER -> 0

\* parseFloat(value) || 0 on a cell
ParseFloatOrZero(cell) ==
  CASE cell = "10" -> Num(10)
    [] cell = "221" -> Num(221)
    [] OTHER -> Zero

RequiredHeaders ==
  <<"TRANSACTION_ID", "TX_DATETIME", "CUSTOMER_ID", "TERMINAL_ID", "TX_AMOUNT",
    "TX_TIME_SECONDS", "TX_TIME_DAYS", "TX_FRAUD">>

\* the switch of lines 35-63 on one header and its trimmed cell
ParseCell(header, value) ==
  CASE header = "TX_AMOUNT" -> ParseFloatOrZero(value)
    [] header \in {"TX_TIME_SECONDS", "TX_TIME_DAYS", "TX_FRAUD", "TX_FRAUD_SCENARIO"}
         -> ParseIntOrZero(value)
    [] OTHER -> value

\* the transaction lines 30-64 build from one line's cells: a field per header
\* the switch knows, the last column of a name winning; TX_FRAUD_SCENARIO is
\* left undefined where its cell parses to nothing
ParsedLine(headers, values) ==
  LET last(h) == CHOOSE i \in DOMAIN headers :
                   headers[i] = h /\ \A j \in DOMAIN headers : j > i => headers[j] # h
      known == {headers[i] : i \in DOMAIN headers}
                 \cap ({RequiredHeaders[i] : i \in DOMAIN RequiredHeaders}
                         \cup {"TX_FRAUD_SCENARIO"})
      fields == {h \in known :
                   h = "TX_FRAUD_SCENARIO" => ParseIntOrZero(values[last(h)]) # 0}
  IN  [h \in fields |-> ParseCell(h, values[last(h)])]

\* parseCSV on a file given as its header cells and the cells of its data lines
parseCSV(headers, lines) ==
  IF \E i \in DOMAIN RequiredHeaders :
       \A j \in DOMAIN headers : headers[j] # RequiredHeaders[i]
    THEN Threw("Missing required columns")
    ELSE LET whole == SelectSeq(lines, LAMBDA values : Len(values) = Len(headers))
             parsed == MapSeq(whole, LAMBDA values : ParsedLine(headers, values))
         IN  Returned(SelectSeq(parsed, LAMBDA t : /\ t.TRANSACTION_ID # ""
                                                  /\ t.CUSTOMER_ID # ""
                                                  /\ t.TERMINAL_ID # ""))

\* the files: a header with every required column or without the label column,
\* lines of the header's length with cells filled, empty or unparsable, and
\* lines a cell short or a cell long
MaxCsvLines == 2

CsvHeaders == {RequiredHeaders, SubSeq(RequiredHeaders, 1, 7)}

CsvLines ==
  {<<id, "d", c, k, a, "0", "0", f>> :
     id \in {"", "x1"}, c \in {"", "c1"}, k \in {"", "t1"}, a \in {"10", "abc"},
     f \in {"", "0", "1", "2"}}
    \cup {<<"x1", "d", "c1", "t1", "10", "0", "0">>,
          <<"x1", "d", "c1", "t1", "10", "0", "0", "1", "1">>}

\* handleFileLoad on a file: the parse, then the list and the statistics
UnitFileLoad ==
  /\ ret = NoRet
  /\ \E headers \in CsvHeaders : \E n \in 0..MaxCsvLines : \E lines \in [1..n -> CsvLines] :
       \E r \in {parseCSV(headers, lines)} :
         /\ ret' = [op |-> "handleFileLoad", headers |-> headers, lines |-> lines,
                    out |-> r]
         /\ app' = IF r.ok
                     THEN [app EXCEPT !.transactions = r.value,
                                      !.fraudStats = Some(analyzeFraudStats(r.value)),
                                      !.terminalStats = analyzeTerminalStats(r.value),
                                      !.customerStats = analyzeCustomerStats(r.value)]
                     ELSE app
  /\ UNCHANGED detector

TerminalRows == {"c1"} \X {"t1", "t2"} \X {10} \X LabelCells

\* the rows as parseCSV hands them on
ParsedRows(rows) ==
  [i \in 1..Len(rows) |-> <<rows[i][1], rows[i][2], rows[i][3], ParseIntOrZero(rows[i][4])>>]

\* the terminal aggregations on a parsed batch
UnitTerminalStats ==
  /\ ret = NoRet
  /\ \E n \in 0..MaxLen : \E rows \in [1..n -> TerminalRows] :
       LET transactions == BatchOf(ParsedRows(rows))
       IN  ret' = [op |-> "terminalStats", cells |-> rows, in |-> transactions,
                   out |-> calculateTerminalStats(transactions),
                   analyzer |-> analyzeTerminalStats(transactions)]
  /\ UNCHANGED <<detector, app>>

\* extractFeatures on a batch
UnitExtract ==
  /\ ret = NoRet
  /\ \E n \in 0..MaxLen : \E rows \in [1..n -> StatRows] :
       ret' = [op |-> "extractFeatures", in |-> BatchOf(rows),
               out |-> extractFeatures(BatchOf(rows))]
  /\ UNCHANGED <<detector, app>>

\* rows of a second normalizeFeatures call on the same detector
MaxAgain == 1

\* normalizeFeatures on the features of a batch: fits this.scaler; a second
\* call may follow the first
UnitNormalize ==
  /\ \/ ret = NoRet
     \/ ret.op = "normalizeFeatures" /\ ret.before = NullScaler
  /\ \E n \in 0..(IF ret = NoRet THEN MaxLen ELSE MaxAgain) : \E rows \in [1..n -> NormRows] :
       LET features == extractFeatures(BatchOf(rows))
           r == normalizeFeatures(features, scaler)
       IN  /\ scaler' = r.scaler
           /\ ret' = [op |-> "normalizeFeatures", in |-> features, before |-> scaler,
                      out |-> Returned(r.out)]
  /\ UNCHANGED <<model, isTraining, calls, trained, app>>

\* parseFloat of the TX_AMOUNT cells 0.1, 10 and 86.53
AmountCells == {DDecimal(1, 10), DDecimal(10, 1), DDecimal(8653, 100)}

\* normalizeFeatures in binary64 on the one column of parsed amounts
UnitNormalizeDouble ==
  /\ ret = NoRet
  /\ \E n \in 0..MaxLen : \E amounts \in [1..n -> AmountCells] :
       \E r \in {normalizeFeaturesDouble([k \in 1..n |-> <<amounts[k]>>], scaler)} :
         /\ scaler' = r.scaler
         /\ ret' = [op |-> "normalizeFeaturesDouble",
                    in |-> [k \in 1..n |-> <<amounts[k]>>], out |-> Returned(r.out)]
  /\ UNCHANGED <<model, isTraining, calls, trained, app>>

\* applyNormalization, before or after a scaler has been fit
UnitApply ==
  /\ ret.op \in {"none", "normalizeFeatures"}
  /\ \E n \in 0..MaxLen : \E rows \in [1..n -> NormRows] :
       LET features == extractFeatures(BatchOf(rows))
       IN  ret' = [op |-> "applyNormalization", in |-> features, scaler |-> scaler,
                   out |-> Returned(applyNormalization(features, scaler))]
  /\ UNCHANGED <<detector, app>>

\* DataAnalyzer.detectAnomalies on a batch, beside the rule engine's output
UnitAnomalies ==
  /\ ret = NoRet
  /\ \E R \in RuleRows : \E n \in 0..MaxRuleLen : \E rows \in [1..n -> R] :
       ret' = [op |-> "detectAnomalies", in |-> BatchOf(rows),
               out |-> detectAnomalies(BatchOf(rows)),
               rules |-> detectFraudRuleBased(BatchOf(rows))]
  /\ UNCHANGED <<detector, app>>

UnitNext ==
  \/ UnitDetect
  \/ UnitFileLoad
  \/ UnitAnomalies
  \/ UnitMetrics
  \/ UnitMetricsBinary
  \/ UnitCustomerStats
  \/ UnitTerminalStats
  \/ UnitExtract
  \/ UnitNormalize
  \/ UnitNormalizeDouble
  \/ UnitApply

SpecUnit == Init /\ [][UnitNext]_vars

(***************************************************************************)
(* Spec: one FraudDetector used through its public methods, trainModel     *)
(* calls overlapping.  A trainModel call runs to its first await (the      *)
(* classifier's fit), then to the await inside its own predict, then to    *)
(* its end.  Every program step waits for the last result to be collected. *)
(***************************************************************************)
DetRows == {<<"c1", "t1", 10, 0>>, <<"c2", "t1", 50, 1>>}

\* the probabilities the classifier may give a row
Probs == {Zero, Frac(1, 2), One}

\* batches for the rule engine in which some rows are flagged and some are not
MaxDetect == 3
DetectRows == {<<"c1", "t1", 221, 0>>, <<"c2", "t1", 10, 0>>}

Collected == ret = NoRet

\* lines 130-177: up to the await of model.fit; an empty batch throws at the tensors
TrainStart(s, b) ==
  /\ Collected
  /\ calls[s].pc = "idle" /\ \A r \in Slots : r < s => calls[r].pc # "idle"
  /\ scaler' = normalizeFeatures(extractFeatures(b), scaler).scaler
  /\ IF Len(b) = 0
     THEN /\ isTraining' = FALSE
          /\ ret' = [op |-> "trainModel", in |-> b, out |-> Threw("TypeError")]
          /\ UNCHANGED <<model, calls>>
     ELSE /\ isTraining' = TRUE
          /\ model' = [id |-> s, fitted |-> FALSE]
          /\ calls' = [calls EXCEPT ![s] = [pc |-> "fit", batch |-> b]]
          /\ UNCHANGED ret
  /\ UNCHANGED trained

\* the fit resolves; lines 192 and 207-217: predict up to the await of data()
FitResolve(s) ==
  /\ Collected
  /\ calls[s].pc = "fit"
  /\ model' = IF model.id = s THEN [model EXCEPT !.fitted = TRUE] ELSE model
  /\ IF NotTrainedYet(model, scaler)
     THEN /\ isTraining' = FALSE
          /\ calls' = [calls EXCEPT ![s] = IdleCall]
          /\ ret' = [op |-> "trainModel", in |-> calls[s].batch,
                     out |-> Threw("Model not trained yet")]
     ELSE /\ calls' = [calls EXCEPT ![s].pc = "data"]
          /\ UNCHANGED <<isTraining, ret>>
  /\ UNCHANGED <<scaler, trained>>

\* a rejection that rethrows without resetting the flag
FitRejectStuck(s) ==
  /\ Collected
  /\ calls[s].pc = "fit"
  /\ calls' = [calls EXCEPT ![s] = IdleCall]
  /\ ret' = [op |-> "trainModel", in |-> calls[s].batch, out |-> Threw("fit")]
  /\ UNCHANGED <<model, scaler, trained, isTraining>>

\* the fit rejects; lines 201-204
FitReject(s) ==
  /\ Collected
  /\ calls[s].pc = "fit"
  /\ isTraining' = FALSE
  /\ calls' = [calls EXCEPT ![s] = IdleCall]
  /\ ret' = [op |-> "trainModel", in |-> calls[s].batch, out |-> Threw("fit")]
  /\ UNCHANGED <<model, scaler, trained>>

\* lines 223-227 and 193-200: the predictions, the metrics, the flag, the return
TrainFinish(s) ==
  /\ Collected
  /\ calls[s].pc = "data"
  /\ \E probabilities \in [1..Len(calls[s].batch) -> Probs] :
       LET predictions == PredictionsOf(calls[s].batch, probabilities)
           metrics == calculateMetrics(calls[s].batch, predictions)
       IN  /\ ret' = [op |-> "trainModel", in |-> calls[s].batch, out |-> metrics,
                      predictions |-> predictions]
           /\ trained' = (trained \/ metrics.ok)
  /\ isTraining' = FALSE
  /\ calls' = [calls EXCEPT ![s] = IdleCall]
  /\ UNCHANGED <<model, scaler>>

\* predict, lines 207-228, to its end
Predict(b) ==
  /\ Collected
  /\ IF NotTrainedYet(model, scaler)
     THEN /\ ret' = [op |-> "predict", in |-> b, out |-> Threw("Model not trained yet"),
                     features |-> <<>>, normalized |-> <<>>, probabilities |-> <<>>]
          /\ UNCHANGED scaler
     ELSE LET features == extractFeatures(b)
              n == predictNormalize(features, scaler)
          IN  /\ scaler' = n.scaler
              /\ IF Len(b) = 0
                 THEN ret' = [op |-> "predict", in |-> b, out |-> Threw("tensor2d"),
                              features |-> features, normalized |-> n.out,
                              probabilities |-> <<>>]
                 ELSE \E probabilities \in [1..Len(b) -> Probs] :
                        ret' = [op |-> "predict", in |-> b,
                                out |-> Returned(PredictionsOf(b, probabilities)),
                                features |-> features, normalized |-> n.out,
                                probabilities |-> probabilities]
  /\ UNCHANGED <<model, isTraining, calls, trained>>

\* detectFraudRuleBased, lines 258-295
Detect(b) ==
  /\ Collected
  /\ ret' = [op |-> "detectFraudRuleBased", in |-> b,
             out |-> Returned(detectFraudRuleBased(b))]
  /\ UNCHANGED detector

\* isTrainingInProgress, lines 297-299
IsTrainingInProgress ==
  /\ Collected
  /\ ret' = [op |-> "isTrainingInProgress", out |-> Returned(isTraining)]
  /\ UNCHANGED detector

\* the caller takes the result
Collect ==
  /\ ~Collected
  /\ ret' = NoRet
  /\ UNCHANGED detector

Next ==
  \/ \E n \in 0..MaxBatch : \E rows \in [1..n -> DetRows] :
       \/ \E s \in Slots : TrainStart(s, BatchOf(rows)) /\ UNCHANGED app
       \/ Predict(BatchOf(rows)) /\ UNCHANGED app
       \/ Detect(BatchOf(rows)) /\ UNCHANGED app
  \/ \E n \in 1..MaxDetect : \E rows \in [1..n -> DetectRows] :
       Detect(BatchOf(rows)) /\ UNCHANGED app
  \/ \E s \in Slots : FitResolve(s) /\ UNCHANGED app
  \/ \E s \in Slots : FitReject(s) /\ UNCHANGED app
  \/ \E s \in Slots : TrainFinish(s) /\ UNCHANGED app
  \/ IsTrainingInProgress /\ UNCHANGED app
  \/ Collect /\ UNCHANGED app

Spec == Init /\ [][Next]_vars

\* SpecFair: the trainModel calls alone, on batches of one kind of row.  The
\* steps the program itself takes are taken once they can be: the
\* continuation after predictions.data() (however often other calls' results
\* come in between) and the caller's taking of a result.
\* Nothing is assumed of the classifier's fit: it may resolve, reject, or
\* never return.
TrainRows == {<<"c1", "t1", 10, 1>>}

TrainNext ==
  \/ \E n \in 0..MaxBatch : \E rows \in [1..n -> TrainRows] :
       \E s \in Slots : TrainStart(s, BatchOf(rows)) /\ UNCHANGED app
  \/ \E s \in Slots : FitResolve(s) /\ UNCHANGED app
  \/ \E s \in Slots : FitReject(s) /\ UNCHANGED app
  \/ \E s \in Slots : TrainFinish(s) /\ UNCHANGED app
  \/ IsTrainingInProgress /\ UNCHANGED app
  \/ Collect /\ UNCHANGED app

\* what a TrainFinish(s) step does to calls, and when it can be taken
Finishes(s) ==
  /\ Collected
  /\ calls[s].pc = "data"
  /\ calls' = [calls EXCEPT ![s] = IdleCall]

SpecFair ==
  /\ Init /\ [][TrainNext]_vars
  /\ \A s \in Slots : SF_calls(Finishes(s))
  /\ WF_(ret.op)(Collect /\ UNCHANGED app)

(***************************************************************************)
(* SpecApp: the App component's handlers over its one FraudDetector.  The  *)
(* guards are the ones the rendered controls impose.                       *)
(***************************************************************************)
FormRows == {<<"c1", "t1", 10>>, <<"c3", "t2", 221>>}

\* PredictionForm.handlePredict: the transaction built from the form
FormTransaction(row) == Transaction("pred", row[1], row[2], row[3], 0, 0, 0)

\* the metrics handleRuleBasedDetection shows
PseudoMetrics ==
  [accuracy |-> Frac(85, 100), precision |-> Frac(9, 10), recall |-> Frac(75, 100),
   f1Score |-> Frac(82, 100), confusion_matrix |-> <<<<0, 0>>, <<0, 0>>>>]

\* handleSinglePrediction's return value
SingleResult(transaction, result) ==
  [isFraud |-> result.predicted_fraud = 1,
   probability |-> OrZero(result.predicted_probability),
   scenario |-> IF result.predicted_fraud = 1
                  THEN IF NGt(transaction.TX_AMOUNT, Num(AmountThreshold))
                         THEN "High Amount (Scenario 1)"
                         ELSE "Pattern-based detection"
                  ELSE "undefined"]

\* the upload screen is shown while there are no transactions
HandleFileLoad(parsedTransactions) ==
  /\ Collected
  /\ Len(app.transactions) = 0
  /\ app' = [app EXCEPT !.transactions = parsedTransactions,
                        !.fraudStats = Some(analyzeFraudStats(parsedTransactions)),
                        !.terminalStats = analyzeTerminalStats(parsedTransactions),
                        !.customerStats = analyzeCustomerStats(parsedTransactions)]
  /\ UNCHANGED <<detector, ret>>

\* the Train button, enabled unless isTraining or there are no transactions
HandleModelTrain ==
  /\ ~app.isTraining /\ Len(app.transactions) > 0
  /\ TrainStart(1, app.transactions)
  /\ app' = [app EXCEPT !.isTraining = TRUE,
                        !.train = [pc |-> "trainModel", batch |-> app.transactions,
                                   metrics |-> Null]]

\* trainModel has settled: lines 54-58, or the catch and the finally
TrainModelSettled ==
  /\ ret.op = "trainModel" /\ app.train.pc = "trainModel"
  /\ IF ret.out.ok
     THEN /\ app' = [app EXCEPT !.modelMetrics = Some(ret.out.value),
                                !.isModelTrained = TRUE,
                                !.train.pc = "predict",
                                !.train.metrics = Some(ret.out.value)]
          /\ scaler' = predictNormalize(extractFeatures(app.train.batch), scaler).scaler
          /\ ret' = NoRet
     ELSE /\ app' = [app EXCEPT !.isTraining = FALSE, !.train = IdleHandler]
          /\ ret' = [op |-> "handleModelTrain", in |-> app.train.batch, out |-> ret.out]
          /\ UNCHANGED scaler
  /\ UNCHANGED <<model, isTraining, calls, trained>>

\* the handler's own predict has resolved: lines 59-61 and the finally
PredictSettled ==
  /\ Collected
  /\ app.train.pc = "predict"
  /\ \E probabilities \in [1..Len(app.train.batch) -> Probs] :
       app' = [app EXCEPT !.transactions = PredictionsOf(app.train.batch, probabilities),
                          !.isTraining = FALSE,
                          !.train = IdleHandler]
  /\ ret' = [op |-> "handleModelTrain", in |-> app.train.batch,
             out |-> Returned(app.train.metrics.value)]
  /\ UNCHANGED detector

\* the same button with the rule-based method selected
HandleRuleBasedDetection ==
  /\ Collected
  /\ ~app.isTraining /\ Len(app.transactions) > 0
  /\ LET predictedTransactions == detectFraudRuleBased(app.transactions)
     IN  /\ app' = [app EXCEPT !.transactions = predictedTransactions,
                               !.modelMetrics = Some(PseudoMetrics),
                               !.isModelTrained = TRUE]
         /\ ret' = [op |-> "handleRuleBasedDetection", in |-> app.transactions,
                    out |-> predictedTransactions]
  /\ UNCHANGED detector

\* the Predict button of the form, refused unless isModelTrained
HandleSinglePrediction(row) ==
  /\ Collected
  /\ Len(app.transactions) > 0 /\ app.isModelTrained
  /\ LET transaction == FormTransaction(row)
     IN  IF app.isModelTrained
           THEN IF NotTrainedYet(model, scaler)
                  THEN /\ ret' = [op |-> "handleSinglePrediction", in |-> transaction,
                                  out |-> Threw("Model not trained yet")]
                       /\ UNCHANGED scaler
                  ELSE /\ scaler' = predictNormalize(extractFeatures(<<transaction>>),
                                                     scaler).scaler
                       /\ \E p \in Probs :
                            ret' = [op |-> "handleSinglePrediction", in |-> transaction,
                                    out |-> Returned(SingleResult(transaction,
                                              PredictionsOf(<<transaction>>, <<p>>)[1]))]
           ELSE /\ ret' = [op |-> "handleSinglePrediction", in |-> transaction,
                           out |-> Returned(SingleResult(transaction,
                                     detectFraudRuleBased(<<transaction>>)[1]))]
                /\ UNCHANGED scaler
  /\ UNCHANGED <<model, isTraining, calls, trained, app>>

\* PredictionForm.handlePredict: the Predict button of the form; the form is on
\* screen once there are transactions
HandlePredict(row) ==
  IF app.isModelTrained
    THEN HandleSinglePrediction(row)
    ELSE /\ Collected
         /\ Len(app.transactions) > 0
         /\ ret' = [op |-> "handlePredict", in |-> FormTransaction(row),
                    out |-> Threw("Please train a model first in the Model Training tab")]
         /\ UNCHANGED <<detector, app>>

\* the Load New Data button of the header
LoadNewData ==
  /\ Collected
  /\ Len(app.transactions) > 0
  /\ app' = [app EXCEPT !.transactions = <<>>, !.fraudStats = Null,
                        !.modelMetrics = Null, !.isModelTrained = FALSE,
                        !.terminalStats = <<>>, !.customerStats = <<>>]
  /\ UNCHANGED <<detector, ret>>

AppNext ==
  \/ \E n \in 0..MaxBatch : \E rows \in [1..n -> DetRows] : HandleFileLoad(BatchOf(rows))
  \/ HandleModelTrain
  \/ FitResolve(1) /\ UNCHANGED app
  \/ FitReject(1) /\ UNCHANGED app
  \/ TrainFinish(1) /\ UNCHANGED app
  \/ TrainModelSettled
  \/ PredictSettled
  \/ HandleRuleBasedDetection
  \/ \E row \in FormRows : HandlePredict(row)
  \/ LoadNewData
  \/ Collect /\ ret.op # "trainModel" /\ UNCHANGED app

SpecApp == Init /\ [][AppNext]_vars

(***************************************************************************)
(* The claims.  The conditions are stated over the batch in whole numbers  *)
(* (the drawn amounts are integers), apart from the model's operators.     *)
(***************************************************************************)
\* the sum of f over the set S
RECURSIVE SumOver(_, _)
SumOver(S, f) ==
  IF S = {} THEN 0 ELSE LET x == CHOOSE y \in S : TRUE IN f[x] + SumOver(S \ {x}, f)

AmountOf(t) == t.TX_AMOUNT[1]

SameCustomer(b, i) == {j \in DOMAIN b : b[j].CUSTOMER_ID = b[i].CUSTOMER_ID}

SameTerminal(b, i) == {j \in DOMAIN b : b[j].TERMINAL_ID = b[i].TERMINAL_ID}

\* the three rule conditions of row i of batch b
OverThreshold(b, i) == AmountOf(b[i]) > 220

RiskyTerminal(b, i) ==
  2 * Cardinality({j \in SameTerminal(b, i) : b[j].TX_FRAUD = 1}) > Cardinality(SameTerminal(b, i))

AmountSpike(b, i) ==
  AmountOf(b[i]) * Cardinality(SameCustomer(b, i))
    > 3 * SumOver(SameCustomer(b, i), [j \in DOMAIN b |-> AmountOf(b[j])])

RuleRan == ret.op = "detectFraudRuleBased"

\* C1: the first matching rule wins: a transaction over 220 is given scenario 1
\* whatever its terminal's fraud rate and its customer's mean are, and one of at
\* most 220 at a terminal with fraud rate over 0.5 is given scenario 2, also when
\* its amount is over 3 times its customer's mean.
C1_FirstMatchWins ==
  RuleRan =>
    /\ Len(ret.out) = Len(ret.in)
    /\ \A i \in DOMAIN ret.in :
         /\ OverThreshold(ret.in, i) => ret.out[i].predicted_scenario = 1
         /\ (~OverThreshold(ret.in, i) /\ RiskyTerminal(ret.in, i))
              => ret.out[i].predicted_scenario = 2

\* a transaction that matches all three rules was given scenario 1
C1_Witness ==
  /\ RuleRan
  /\ \E i \in DOMAIN ret.in :
       /\ OverThreshold(ret.in, i) /\ RiskyTerminal(ret.in, i) /\ AmountSpike(ret.in, i)
       /\ ret.out[i].predicted_scenario = 1

\* C2: a transaction is legitimate (predicted_fraud 0, scenario 0) exactly when
\* none of the three strict conditions holds; every transaction gets one scenario
\* in 0..3 and predicted_fraud is 1 exactly for the scenarios 1, 2 and 3.
C2_LegitimateIffNoRule ==
  RuleRan =>
    \A i \in DOMAIN ret.in :
      /\ ret.out[i].predicted_scenario \in 0..3
      /\ ret.out[i].predicted_fraud = (IF ret.out[i].predicted_scenario = 0 THEN 0 ELSE 1)
      /\ ret.out[i].predicted_scenario = 0
           <=> ~(OverThreshold(ret.in, i) \/ RiskyTerminal(ret.in, i) \/ AmountSpike(ret.in, i))

\* a legitimate transaction sitting on all three boundaries: amount 220, terminal
\* fraud rate exactly 1/2, amount exactly 3 times the customer's mean
C2_Witness ==
  /\ RuleRan
  /\ \E i \in DOMAIN ret.in :
       /\ AmountOf(ret.in[i]) = 220
       /\ 2 * Cardinality({j \in SameTerminal(ret.in, i) : ret.in[j].TX_FRAUD = 1})
            = Cardinality(SameTerminal(ret.in, i))
       /\ AmountOf(ret.in[i]) * Cardinality(SameCustomer(ret.in, i))
            = 3 * SumOver(SameCustomer(ret.in, i), [j \in DOMAIN ret.in |-> AmountOf(ret.in[j])])
       /\ ret.out[i].predicted_scenario = 0 /\ ret.out[i].predicted_fraud = 0

MetricsRan == ret.op = "calculateMetrics"

\* C3: the confusion matrix calculateMetrics returns sums to the number of
\* evaluated rows, for any label and prediction sequences.
C3_MatrixSumsToRows ==
  (MetricsRan /\ ret.out.ok) => MatrixSum(ret.out.value) = Len(ret.in)

\* C4: every one of accuracy, precision, recall and F1 whose denominator is 0 is
\* returned as 0, never as NaN; an empty batch gives four zeros.
C4_ZeroDenominatorGivesZero ==
  (MetricsRan /\ ret.out.ok) =>
    LET m == ret.out.value
        tn == m.confusion_matrix[1][1]
        fp == m.confusion_matrix[1][2]
        fn == m.confusion_matrix[2][1]
        tp == m.confusion_matrix[2][2]
    IN  /\ ~IsNaN(m.accuracy) /\ ~IsNaN(m.precision) /\ ~IsNaN(m.recall) /\ ~IsNaN(m.f1Score)
        /\ tp + fp + tn + fn = 0 => m.accuracy = Zero
        /\ tp + fp = 0 => m.precision = Zero
        /\ tp + fn = 0 => m.recall = Zero
        /\ (m.precision = Zero /\ m.recall = Zero) => m.f1Score = Zero

PredictRan == ret.op = "predict"

\* C5: a predict call made while no trainModel call has yet completed
\* successfully (never trained, training in flight, or every attempt failed)
\* fails and returns no predictions.
C5_PredictOnlyWhenTrained ==
  (PredictRan /\ ~trained) => ~ret.out.ok

\* C6: applyNormalization with no scaler ever fit fails the call; it never
\* returns the raw feature matrix.
C6_NoScalerIsFatal ==
  (ret.op = "applyNormalization" /\ ~ret.scaler.set) => ~ret.out.ok

\* C7: a predict or detectFraudRuleBased call leaves the scaler as it found it,
\* whatever its batch, and predict hands the model the batch's features
\* transformed by exactly the scaler held when it was called.
C7_ApplyDontRefit ==
  [][(Collected /\ ret'.op \in {"predict", "detectFraudRuleBased"}) =>
       /\ scaler' = scaler
       /\ (ret'.op = "predict" /\ ~NotTrainedYet(model, scaler)) =>
            ret'.normalized = Transform(extractFeatures(ret'.in), scaler)]_vars

\* predict has returned predictions for a batch whose own fit is another scaler
C7_Witness ==
  /\ PredictRan /\ ret.out.ok
  /\ scaler.set
  /\ FitScaler(ret.features) # scaler
  /\ ret.normalized # ret.features

\* C8: when predict scores a batch of one transaction, positions 4 to 10 of
\* its feature vector are all 0.
C8_SingleTransactionZeroDefaults ==
  (PredictRan /\ ret.out.ok /\ Len(ret.in) = 1) =>
    /\ Len(ret.features) = 1
    /\ \A k \in 4..10 : ret.features[1][k] = Zero

\* C9: after rule-based detection the metrics shown are calculateMetrics of the
\* batch's labels against the rule engine's predictions, and the confusion
\* matrix shown sums to the number of scored transactions.
C9_RuleMetricsFromEvaluator ==
  ret.op = "handleRuleBasedDetection" =>
    /\ app.modelMetrics.set
    /\ app.modelMetrics.value = calculateMetrics(ret.in, ret.out).value
    /\ MatrixSum(app.modelMetrics.value) = Len(ret.out)

C11_OneVectorOf14PerRow ==
  ret.op = "extractFeatures" =>
    /\ Len(ret.out) = Len(ret.in)
    /\ \A i \in DOMAIN ret.in :
         /\ Len(ret.out[i]) = 14
         /\ ret.out[i][1] = ret.in[i].TX_AMOUNT
         /\ ret.out[i][5] = Num(Cardinality(SameCustomer(ret.in, i)))

\* three rows of different amounts, two customers, one of them seen once
C11_Witness ==
  /\ ret.op = "extractFeatures"
  /\ Len(ret.in) = 3
  /\ ret.in[1].TX_AMOUNT # ret.in[2].TX_AMOUNT
  /\ ret.out[1][5] = Num(1) /\ ret.out[2][5] = Num(2)

PredictedFields == {"predicted_fraud", "predicted_probability", "predicted_scenario"}

\* out is in, row by row, with nothing but predicted fields added or changed
Appended(in, out) ==
  /\ Len(out) = Len(in)
  /\ \A i \in DOMAIN in :
       /\ DOMAIN in[i] \subseteq DOMAIN out[i]
       /\ DOMAIN out[i] \ DOMAIN in[i] \subseteq PredictedFields
       /\ \A f \in DOMAIN in[i] \ PredictedFields : out[i][f] = in[i][f]

\* C12: the transactions detectFraudRuleBased and predict return are the input
\* transactions, same length and order, every original field unchanged and
\* only predicted fields added.
C12_ScoringAppends ==
  /\ ret.op = "handleRuleBasedDetection" => Appended(ret.in, ret.out)
  /\ (ret.op = "handleModelTrain" /\ ret.out.ok) => Appended(ret.in, app.transactions)

\* predict has rescored a batch the rules had scored, against a row's label
C12_Witness ==
  /\ ret.op = "handleModelTrain" /\ ret.out.ok
  /\ Len(ret.in) = 2
  /\ \A i \in DOMAIN ret.in : Has(ret.in[i], "predicted_scenario")
  /\ \E i \in DOMAIN ret.in :
       /\ app.transactions[i].predicted_fraud # ret.in[i].TX_FRAUD
       /\ app.transactions[i].predicted_fraud # ret.in[i].predicted_fraud

\* C14: calculateMetrics given label and prediction sequences of unequal
\* length fails and returns no metrics.
C14_UnequalLengthsFail ==
  (MetricsRan /\ Len(ret.in) # Len(ret.predicted)) => ~ret.out.ok

\* the positions of a label sequence and a prediction sequence with the given pair
PairCount(actual, predicted, a, p) ==
  Cardinality({i \in DOMAIN actual :
                 actual[i].TX_FRAUD = a /\ predicted[i].predicted_fraud = p})

BinaryPair(actual, predicted) ==
  /\ Len(actual) = Len(predicted)
  /\ \A i \in DOMAIN actual :
       /\ actual[i].TX_FRAUD \in {0, 1}
       /\ Has(predicted[i], "predicted_fraud") /\ predicted[i].predicted_fraud \in {0, 1}

\* C15: on binary sequences of one length calculateMetrics counts the pairs
\* (1,1), (0,1), (0,0), (1,0) as tp, fp, tn, fn, lays them out as
\* [[tn, fp], [fn, tp]], and gives accuracy (tp+tn)/n, precision tp/(tp+fp),
\* recall tp/(tp+fn) and F1 2*precision*recall/(precision+recall) wherever the
\* denominator is not 0.
C15_MetricsByDefinition ==
  (MetricsRan /\ BinaryPair(ret.in, ret.predicted)) =>
    LET tp == PairCount(ret.in, ret.predicted, 1, 1)
        fp == PairCount(ret.in, ret.predicted, 0, 1)
        tn == PairCount(ret.in, ret.predicted, 0, 0)
        fn == PairCount(ret.in, ret.predicted, 1, 0)
        m == ret.out.value
    IN  /\ ret.out.ok
        /\ m.confusion_matrix = <<<<tn, fp>>, <<fn, tp>>>>
        /\ tp + fp + tn + fn = Len(ret.in)
        /\ Len(ret.in) > 0 => m.accuracy = Frac(tp + tn, tp + fp + tn + fn)
        /\ tp + fp > 0 => m.precision = Frac(tp, tp + fp)
        /\ tp + fn > 0 => m.recall = Frac(tp, tp + fn)
        /\ (tp + fp > 0 /\ tp + fn > 0 /\ tp > 0) =>
             m.f1Score = NDiv(NMul(Num(2), NMul(Frac(tp, tp + fp), Frac(tp, tp + fn))),
                              NAdd(Frac(tp, tp + fp), Frac(tp, tp + fn)))

\* truth [1,0,1,0] against predictions [1,0,0,0]
C15_Witness ==
  /\ MetricsRan /\ ret.out.ok
  /\ [i \in DOMAIN ret.in |-> ret.in[i].TX_FRAUD] = <<1, 0, 1, 0>>
  /\ Len(ret.predicted) = 4
  /\ [i \in DOMAIN ret.predicted |-> PredictedLabel(ret.predicted[i])] = <<1, 0, 0, 0>>
  /\ ret.out.value.confusion_matrix = <<<<2, 0>>, <<1, 1>>>>
  /\ ret.out.value.accuracy = Frac(3, 4)
  /\ ret.out.value.precision = One
  /\ ret.out.value.recall = Frac(1, 2)
  /\ ret.out.value.f1Score = Frac(2, 3)

\* the terminals of the parsed lines all of whose label cells are empty
UnlabelledTerminals(cells) ==
  {k \in {cells[i][2] : i \in DOMAIN cells} :
     \A i \in DOMAIN cells : cells[i][2] = k => cells[i][4] = ""}

\* C16: a terminal whose transactions carry no fraud label gets a fraud rate
\* that is not the number 0, in FraudDetector and in DataAnalyzer.
C16_UnlabelledRateIsNotZero ==
  ret.op = "terminalStats" =>
    \A k \in UnlabelledTerminals(ret.cells) :
      /\ ret.out[k].fraudRate # Zero
      /\ \A i \in DOMAIN ret.analyzer :
           ret.analyzer[i].terminalId = k => ret.analyzer[i].fraudRate # Zero

\* C17: every trainModel call eventually settles and the training flag is
\* cleared, whatever the classifier's fit does.
C17_TrainingSettles ==
  \A s \in Slots : (calls[s].pc # "idle") ~> (calls[s].pc = "idle" /\ ~isTraining)

\* C18: when the classifier's fit fails inside trainModel the call rejects
\* with that failure, the training flag is false again and the scaler is the
\* one computed before the fit; handleModelTrain passes the failure on and
\* leaves the Train button usable.
C18_FailureLeavesRetryPossible ==
  [][/\ (calls[1].pc = "fit" /\ calls'[1].pc = "idle") =>
          /\ ret'.op = "trainModel" /\ ~ret'.out.ok /\ ret'.in = calls[1].batch
          /\ ~isTraining'
          /\ scaler'.set /\ scaler' = scaler
          /\ calls'[1] = IdleCall
     /\ (ret.op = "trainModel" /\ ~ret.out.ok /\ ret'.op # "trainModel") =>
          /\ ret'.op = "handleModelTrain" /\ ret'.out = ret.out
          /\ ~app'.isTraining /\ app'.train = IdleHandler
          /\ ~isTraining' /\ scaler' = scaler]_vars

\* the failure has reached the caller and the Train button is enabled again
C18_Witness ==
  /\ ret.op = "handleModelTrain" /\ ~ret.out.ok
  /\ ret.out.error = "fit"
  /\ scaler = FitScaler(extractFeatures(ret.in))
  /\ ~isTraining /\ ~app.isTraining /\ app.transactions = ret.in

\* C19: on an empty batch calculateCustomerStats and calculateTerminalStats
\* (and the analyzers over them) return empty results, and normalizeFeatures
\* on an empty matrix returns an empty matrix and leaves the scaler as it
\* was, whether or not one had been fitted.
C19_EmptyBatchGivesEmpty ==
  /\ (ret.op \in {"customerStats", "terminalStats"} /\ Len(ret.in) = 0) =>
        (DOMAIN ret.out = {} /\ ret.analyzer = <<>>)
  /\ (ret.op = "normalizeFeatures" /\ Len(ret.in) = 0) =>
        (ret.out = Returned(<<>>) /\ scaler = ret.before)

\* an empty matrix normalized on a detector that already has a scaler
C19_Witness ==
  /\ ret.op = "normalizeFeatures" /\ Len(ret.in) = 0
  /\ ret.before.set /\ Len(ret.before.mean) > 0

\* C20: every transaction that detectFraudRuleBased returns has
\* predicted_fraud 0 or 1 and predicted_probability equal to it, whichever
\* rule flagged it.
C20_RuleProbabilityIsLabel ==
  RuleRan =>
    \A i \in 1..Len(ret.out) :
      /\ ret.out[i].predicted_fraud \in {0, 1}
      /\ ret.out[i].predicted_probability = Num(ret.out[i].predicted_fraud)

\* one batch with an unflagged row and a row flagged by the weakest rule
C20_Witness ==
  /\ RuleRan
  /\ \E i, k \in 1..Len(ret.out) :
       /\ ret.out[i].predicted_scenario = 3 /\ ret.out[i].predicted_probability = One
       /\ ret.out[k].predicted_fraud = 0 /\ ret.out[k].predicted_probability = Zero

\* C13: after normalizeFeatures on a non-empty matrix the scaler's mean and
\* std have one entry per column, no std entry is 0, and a column whose
\* values are all equal is transformed to zeros; stated for the exact
\* arithmetic and for the arithmetic of doubles.
C13_DeadZonePolicy ==
  /\ (ret.op = "normalizeFeatures" /\ Len(ret.in) > 0) =>
        /\ scaler.set
        /\ Len(scaler.mean) = Len(ret.in[1]) /\ Len(scaler.std) = Len(ret.in[1])
        /\ \A i \in 1..Len(ret.in[1]) :
             /\ scaler.std[i] # Zero
             /\ (\A r \in 1..Len(ret.in) : ret.in[r][i] = ret.in[1][i]) =>
                   (scaler.std[i] = One
                      /\ \A r \in 1..Len(ret.in) : ret.out.value[r][i] = Zero)
  /\ (ret.op = "normalizeFeaturesDouble" /\ Len(ret.in) > 0) =>
        /\ scaler.set
        /\ Len(scaler.mean) = Len(ret.in[1]) /\ Len(scaler.std) = Len(ret.in[1])
        /\ \A i \in 1..Len(ret.in[1]) :
             /\ scaler.std[i] # DZero
             /\ (\A r \in 1..Len(ret.in) : ret.in[r][i] = ret.in[1][i]) =>
                   (scaler.std[i] = DOne
                      /\ \A r \in 1..Len(ret.in) : ret.out.value[r][i] = DZero)

\* C21: detectFraudRuleBased leaves the model, the scaler and the training
\* flag as it found them, its output is the one function of the batch whatever
\* state the detector is in, and applied to its own output it gives every
\* transaction the same predicted label, scenario and probability again.
C21_RuleEngineIsPure ==
  [][(Collected /\ ret'.op = "detectFraudRuleBased") =>
       /\ model' = model /\ scaler' = scaler /\ isTraining' = isTraining
       /\ ret'.out = Returned(detectFraudRuleBased(ret'.in))
       /\ LET out == ret'.out.value
              again == detectFraudRuleBased(out)
          IN  /\ Len(again) = Len(out)
              /\ \A i \in 1..Len(out) : \A f \in PredictedFields :
                   again[i][f] = out[i][f]]_vars

\* a detector with a scaler has scored a batch whose terminal has most of its
\* rows flagged, none of them labelled fraud, and one row not flagged
C21_Witness ==
  /\ RuleRan /\ scaler.set
  /\ \E i, j, k \in 1..Len(ret.in) :
       /\ i # j
       /\ ret.out.value[i].predicted_fraud = 1 /\ ret.out.value[j].predicted_fraud = 1
       /\ ret.out.value[k].predicted_fraud = 0
  /\ \A i \in 1..Len(ret.in) : ret.in[i].TX_FRAUD = 0

\* C22: predict gives row i predicted_fraud 1 exactly when the classifier's
\* i-th probability is strictly greater than 1/2 (0 at exactly 1/2), stores
\* that probability unchanged as predicted_probability, and row i of the
\* output is row i of the input.
C22_LabelIsProbabilityOverHalf ==
  (PredictRan /\ ret.out.ok) =>
    /\ Len(ret.out.value) = Len(ret.in) /\ Len(ret.probabilities) = Len(ret.in)
    /\ \A i \in 1..Len(ret.in) :
         LET p == ret.probabilities[i]
             row == ret.out.value[i]
         IN  /\ row.predicted_probability = p
             /\ row.predicted_fraud = (IF 2 * p[1] > p[2] THEN 1 ELSE 0)
             /\ \A f \in DOMAIN ret.in[i] : row[f] = ret.in[i][f]

\* two different rows scored at exactly one half and at one, in that order
C22_Witness ==
  /\ PredictRan /\ ret.out.ok /\ Len(ret.in) = 2
  /\ ret.in[1].CUSTOMER_ID # ret.in[2].CUSTOMER_ID
  /\ ret.probabilities = <<Frac(1, 2), One>>
  /\ ret.out.value[1].predicted_fraud = 0 /\ ret.out.value[2].predicted_fraud = 1

\* C23: in every state of the App, isModelTrained implies that the
\* FraudDetector holds a model and a scaler, and a single-transaction prediction
\* requested while isModelTrained is true never fails with "Model not trained
\* yet", whatever file loads, trainings, rule-based detections and Load New
\* Data went before.
C23_TrainedFlagMeansModel ==
  /\ app.isModelTrained => ~NotTrainedYet(model, scaler)
  /\ ret.op = "handleSinglePrediction" =>
       (ret.out.ok \/ ret.out.error # "Model not trained yet")

\* C24: once the App has no transactions and isModelTrained is false (as Load
\* New Data leaves it), the transaction list stays empty and isModelTrained
\* stays false until a file is loaded, also when a training started before the
\* reset completes after it.  A file load is the step that sets the fraud
\* statistics of the transactions it stores.
C24_LoadNewDataWins ==
  [][(Len(app.transactions) = 0 /\ ~app.isModelTrained) =>
       /\ ~app'.isModelTrained
       /\ \/ Len(app'.transactions) = 0
          \/ app'.fraudStats = Some(analyzeFraudStats(app'.transactions))]_vars

\* C25: when a trainModel call goes on from its fit to the predictions its
\* metrics are computed from, the model the detector holds is the one this call
\* built and the scaler is the one fitted on this call's batch, however the
\* trainModel calls overlap.
C25_MetricsFromOwnModel ==
  [][\A s \in Slots :
       (calls[s].pc = "fit" /\ calls'[s].pc = "data") =>
         /\ model'.id = s /\ model'.fitted
         /\ scaler = FitScaler(extractFeatures(calls[s].batch))]_vars

\* C26: isTrainingInProgress() returns true exactly when some trainModel call
\* has started and not yet settled; in particular it does not return false
\* while a call is still waiting for the classifier.
C26_FlagTracksCallsInFlight ==
  ret.op = "isTrainingInProgress" =>
    (ret.out.value <=> \E s \in Slots : calls[s].pc # "idle")

\* C27: a transaction submitted from the prediction form while isModelTrained
\* is false reaches handleSinglePrediction and is answered with the rule
\* engine's verdict on it; it is neither refused nor failed.
C27_UntrainedFallsBackToRules ==
  (ret.op \in {"handlePredict", "handleSinglePrediction"} /\ ~app.isModelTrained) =>
    /\ ret.op = "handleSinglePrediction"
    /\ ret.out.ok
    /\ LET verdict == detectFraudRuleBased(<<ret.in>>)[1]
       IN  /\ ret.out.value.isFraud = (verdict.predicted_fraud = 1)
           /\ ret.out.value.probability = verdict.predicted_probability

\* C28: every transaction detectFraudRuleBased marks predicted_fraud 1 is in
\* the result of detectAnomalies on the same batch, and that result is the
\* batch with some rows left out: its rows are rows of the batch, each at most
\* once, in the batch's order.
C28_AnomaliesSubsumeRules ==
  ret.op = "detectAnomalies" =>
    /\ \A i \in 1..Len(ret.in) :
         ret.rules[i].predicted_fraud = 1 =>
           \E k \in 1..Len(ret.out) : ret.out[k] = ret.in[i]
    /\ \A k \in 1..Len(ret.out) :
         /\ ret.out[k].TRANSACTION_ID \in 1..Len(ret.in)
         /\ ret.out[k] = ret.in[ret.out[k].TRANSACTION_ID]
         /\ k < Len(ret.out) => ret.out[k].TRANSACTION_ID < ret.out[k + 1].TRANSACTION_ID

\* a batch with a row flagged by the customer rule alone, a row that is an
\* anomaly without being flagged, and a row that is neither
C28_Witness ==
  /\ ret.op = "detectAnomalies"
  /\ \E i \in 1..Len(ret.in) : ret.rules[i].predicted_scenario = 3
  /\ \E i \in 1..Len(ret.in) :
       /\ ret.rules[i].predicted_fraud = 0
       /\ \E k \in 1..Len(ret.out) : ret.out[k] = ret.in[i]
  /\ \E i \in 1..Len(ret.in) : \A k \in 1..Len(ret.out) : ret.out[k] # ret.in[i]

\* C29: DataAnalyzer and FraudDetector aggregate alike: the same customers and
\* the same terminals, and per key the same transaction count and the same mean
\* amount; per terminal the same fraud rate, which is the fraud-labelled rows
\* over the rows and lies in [0, 1]; per customer the same amount deviation,
\* which is the population one: with n rows of sum s and sum of squares q, the
\* square root of (n q - s s) / (n n).
C29_AggregatorsAgree ==
  /\ ret.op = "customerStats" =>
       /\ {ret.analyzer[i].customerId : i \in DOMAIN ret.analyzer} = DOMAIN ret.out
       /\ \A i \in DOMAIN ret.analyzer :
            LET a == ret.analyzer[i]
                d == ret.out[a.customerId]
                rows == {j \in DOMAIN ret.in : ret.in[j].CUSTOMER_ID = a.customerId}
                n == Cardinality(rows)
                sum == SumOver(rows, [j \in DOMAIN ret.in |-> AmountOf(ret.in[j])])
                squares == SumOver(rows, [j \in DOMAIN ret.in |->
                                            AmountOf(ret.in[j]) * AmountOf(ret.in[j])])
            IN  /\ a.totalTransactions = n /\ d.transactionCount = n
                /\ a.averageAmount = Frac(sum, n) /\ d.avgAmount = Frac(sum, n)
                /\ a.amountVariation = Sqrt(Frac(n * squares - sum * sum, n * n))
                /\ d.amountVariation = a.amountVariation
  /\ ret.op = "terminalStats" =>
       /\ {ret.analyzer[i].terminalId : i \in DOMAIN ret.analyzer} = DOMAIN ret.out
       /\ \A i \in DOMAIN ret.analyzer :
            LET a == ret.analyzer[i]
                d == ret.out[a.terminalId]
                rows == {j \in DOMAIN ret.in : ret.in[j].TERMINAL_ID = a.terminalId}
                n == Cardinality(rows)
                frauds == Cardinality({j \in rows : ret.in[j].TX_FRAUD = 1})
                sum == SumOver(rows, [j \in DOMAIN ret.in |-> AmountOf(ret.in[j])])
            IN  /\ a.totalTransactions = n /\ d.transactionCount = n
                /\ a.averageAmount = Frac(sum, n) /\ d.avgAmount = Frac(sum, n)
                /\ a.fraudRate = Frac(frauds, n) /\ d.fraudRate = Frac(frauds, n)
                /\ 0 <= frauds /\ frauds <= n /\ n >= 1

\* a customer with the amounts 10 and 50, whose population deviation is 20,
\* beside another customer
C29_Witness ==
  /\ ret.op = "customerStats"
  /\ Cardinality(DOMAIN ret.out) = 2
  /\ \E i \in DOMAIN ret.analyzer :
       /\ ret.analyzer[i].totalTransactions = 2
       /\ ret.analyzer[i].amountVariation = Num(20)
       /\ ret.out[ret.analyzer[i].customerId].amountVariation = Num(20)

\* the column of a header, and the data lines parseCSV is to keep
ColumnOf(headers, h) == CHOOSE i \in DOMAIN headers : headers[i] = h

KeptLines(headers, lines) ==
  {i \in DOMAIN lines :
     /\ Len(lines[i]) = Len(headers)
     /\ \A h \in {"TRANSACTION_ID", "CUSTOMER_ID", "TERMINAL_ID"} :
          lines[i][ColumnOf(headers, h)] # ""}

\* what C30 says of the lines kept and of their order, the label apart
ParsedInFileOrder ==
  ret.op = "handleFileLoad" =>
    IF \E i \in DOMAIN RequiredHeaders :
         RequiredHeaders[i] \notin {ret.headers[j] : j \in DOMAIN ret.headers}
      THEN ~ret.out.ok /\ app = InitApp
      ELSE /\ ret.out.ok /\ app.transactions = ret.out.value
           /\ Len(ret.out.value) = Cardinality(KeptLines(ret.headers, ret.lines))
           /\ \A k \in 1..Len(ret.out.value) :
                LET i == CHOOSE i \in KeptLines(ret.headers, ret.lines) :
                           Cardinality({j \in KeptLines(ret.headers, ret.lines) : j < i}) = k - 1
                IN  \A h \in {"TRANSACTION_ID", "CUSTOMER_ID", "TERMINAL_ID"} :
                      ret.out.value[k][h] = ret.lines[i][ColumnOf(ret.headers, h)]

\* C30: with a required column missing from the header parseCSV throws and the
\* App's transactions and statistics stay as they were; otherwise it returns,
\* in file order, one transaction for each data line that has the header's
\* number of fields and a non-empty TRANSACTION_ID, CUSTOMER_ID and TERMINAL_ID,
\* and none for any other line; every returned transaction has TX_FRAUD 0 or 1.
C30_OnlyWellFormedRows ==
  /\ ParsedInFileOrder
  /\ (ret.op = "handleFileLoad" /\ ret.out.ok) =>
       \A k \in 1..Len(ret.out.value) : ret.out.value[k].TX_FRAUD \in {0, 1}

====
